---- MODULE Spec2Model ----
(***************************************************************************)
(* A model of the Amplicode learning worker (plugin/scripts):              *)
(*   - the queue reader LearningWorker._poll_queue    (learning_worker.py) *)
(*   - the memory store write_memory / read_memory    (learning_memory.py) *)
(*   - the restart-backoff controller                 (learning_worker.py) *)
(* The three parts share no state; each has its own specification.         *)
(***************************************************************************)
EXTENDS Integers, Sequences, FiniteSets, TLC

\* ------------------------------------------------------------------ bounds
\* Lines the external producers append to the queue file in one run.
MaxLines == 4
\* Events one worker instance is followed for (the malformed-line case
\* returns the same events again and again).
MaxReturned == 6
\* A small value of _poll_queue's limit parameter, so that one poll does not
\* drain the queue.
SmallLimit == 2

\* The limit run() passes to _poll_queue (and the parameter's default).
DefaultLimit == 10

Min(a, b) == IF a < b THEN a ELSE b
Max(a, b) == IF a > b THEN a ELSE b

VARIABLES
    queue,           \* QUEUE_FILE: the sequence of lines, each [id, valid]
    queue_position,  \* LearningWorker.queue_position
    returned,        \* ids of the events the polls of this instance returned, in order
    max_read,        \* number of leading lines of the file physically read so far
    queue_missing,   \* TRUE when QUEUE_FILE does not exist
    last_poll        \* the last call of _poll_queue: its limit, the number of
                     \* events it returned, whether it found no file

queueVars == <<queue, queue_position, returned, max_read, queue_missing, last_poll>>

VARIABLES
    memory_file,     \* <project>/.data/memory.json
    backup_file,     \* <project>/.data/memory.json.backup
    tmp_file,        \* <project>/.data/memory.json.tmp
    lock,            \* the process holding flock(LOCK_EX) on memory.lock
    pc,              \* where each process is in write_memory / read_memory
    arg,             \* the preference argument of the write_memory call in progress
    memory,          \* write_memory's local `memory` (its preferences list)
    result,          \* what the last read_memory call of the process returned
    acquired,        \* preferences of the write_memory calls that took the lock and
                     \* did not fail since, in lock order
    ncalls,          \* write_memory calls issued so far
    nreads,          \* read_memory calls issued so far
    corruptions,     \* times the primary document was corrupted from outside
    crashes          \* processes killed inside a call

memVars == <<memory_file, backup_file, tmp_file, lock, pc, arg, memory, result,
             acquired, ncalls, nreads, corruptions, crashes>>

VARIABLES
    state_file,      \* RESTART_STATE_FILE
    now,             \* the clock, time.time(), in seconds
    rpc,             \* where the worker process is in main()
    state,           \* update_restart_state's local `state`
    time_read,       \* the value the process's last time.time() call returned
    before,          \* RESTART_STATE_FILE as update_restart_state found it
    entered          \* admitted launches that went on to worker.run() so far

restartVars == <<state_file, now, rpc, state, time_read, before, entered>>

VARIABLES
    clock,           \* time.time() as the HealthMonitor's threads read it, in seconds
    last_activity,   \* HealthMonitor.last_activity
    _running,        \* HealthMonitor._running
    wpc,             \* where each watchdog thread is in _watchdog_loop
    wake_at,         \* when each sleeping watchdog thread's time.sleep(10) ends
    nthreads,        \* watchdog threads created so far
    exited,          \* the process has ended through os._exit(1)
    metrics_failed,  \* _dump_debug_info met an exception in the poll that ended the process
    running_since,   \* the clock when start() last set _running
    stop_call,       \* stop() since the last start(): not called, waiting in
                     \* join(timeout=1), or returned
    overdue          \* at some moment the idle time was longer than timeout_seconds

watchVars == <<clock, last_activity, _running, wpc, wake_at, nthreads, exited,
               metrics_failed, running_since, stop_call, overdue>>

VARIABLES
    mclock,            \* the clock as the monitor process reads it, in seconds
    last_trigger_time, \* main()'s last_trigger_time
    iteration,         \* main()'s iteration
    mpc,               \* where the monitor process is in main()
    queue_size,        \* main()'s queue_size
    exit_status,       \* how the last run of the trigger script ended
    decision,          \* what the last threshold check saw and decided
    monitor_heartbeat, \* monitor_heartbeat.json
    monitor_tmp,       \* monitor_heartbeat.tmp
    archive_file,      \* ARCHIVE_FILE: the lines appended to it
    events_to_keep,    \* archive_old_events' events_to_keep
    events_to_archive, \* archive_old_events' events_to_archive
    appended,          \* lines ever appended to the queue file
    qlock,             \* the process holding flock(LOCK_EX) on learning_queue.lock
    ppc,               \* where the worker is in _poll_queue
    torn_read          \* a poll read the queue file between truncation and rewrite

monVars == <<mclock, last_trigger_time, iteration, mpc, queue_size,
             exit_status, decision, monitor_heartbeat, monitor_tmp, archive_file,
             events_to_keep, events_to_archive, appended, qlock, ppc, torn_read>>

\* What a producer that is only counted leaves alone of the above.
monButAppended == <<mclock, last_trigger_time, iteration, mpc, queue_size,
                    exit_status, decision, monitor_heartbeat, monitor_tmp,
                    archive_file, events_to_keep, events_to_archive, qlock, ppc,
                    torn_read>>

VARIABLES
    wkpc,             \* where the worker's main thread is in run()
    after_hb,         \* where run() goes on after the heartbeat being written
    batch,            \* run()'s events: the ids the last poll returned
    idx,              \* the place of run()'s for loop in batch
    events_processed, \* LearningWorker.events_processed
    dispatched,       \* ids of the events handed to _process_event, in order
    failed,           \* places in dispatched of the events whose handler raised
    exit_reason,      \* why run() ended
    worker_heartbeat, \* worker_heartbeat.json
    worker_tmp        \* worker_heartbeat.tmp

workVars == <<wkpc, after_hb, batch, idx, events_processed, dispatched, failed,
              exit_reason, worker_heartbeat, worker_tmp>>

VARIABLES
    cwd,              \* the working directory of the worker process
    handler_cwd,      \* the working directory the last type handler ran in
    event             \* the event the last call of _process_event was given

eventVars == <<cwd, handler_cwd, event>>

vars == <<queueVars, memVars, restartVars, watchVars, monVars, workVars, eventVars>>

\* What the actions of one part leave alone.
notQueueVars == <<memVars, restartVars, watchVars, monVars, workVars, eventVars>>
notMemVars == <<queueVars, restartVars, watchVars, monVars, workVars, eventVars>>
notRestartVars == <<queueVars, memVars, watchVars, monVars, workVars, eventVars>>
notWatchVars == <<queueVars, memVars, restartVars, monVars, workVars, eventVars>>
\* The monitor and the poll it races with write the queue file and the cursor.
notMonVars == <<memVars, restartVars, watchVars, workVars, eventVars>>
\* run() polls the queue and calls the HealthMonitor; only _process_event
\* touches the working directory.
notEventVars == <<memVars, restartVars, monVars>>
notWorkVars == <<notEventVars, eventVars>>

\* ================================================================ the queue
\* A line of the queue file.  id is its place in append order; valid says
\* whether json.loads accepts it.
Line(n, ok) == [id |-> n, valid |-> ok]

\* Values of the limit parameter the polls are called with.
Limits == {SmallLimit, DefaultLimit}

\* "Skip to our position": queue_position calls of f.readline(); readline at
\* the end of the file returns '' and stays there.
SkipTo_OffByOne(q, pos) == Min(pos + 1, Len(q))
SkipTo(q, pos) == Min(pos, Len(q))

\* "Read new events": at most n more iterations; `at` is the number of lines
\* the file object has consumed.  A line that decodes is appended to events
\* and advances the cursor; a line that fails to decode is only logged.
RECURSIVE ReadNew(_, _, _, _, _)
ReadNew(q, at, n, events, pos) ==
    IF n = 0 \/ at >= Len(q)
    THEN [events |-> events, queue_position |-> pos, at |-> at]
    ELSE IF q[at + 1].valid
         THEN ReadNew(q, at + 1, n - 1, Append(events, q[at + 1].id), pos + 1)
         ELSE ReadNew(q, at + 1, n - 1, events, pos)

\* _poll_queue(limit), lines 151-167, on queue file q with cursor pos.
PollResult_NoLimit(q, pos, limit) == ReadNew(q, SkipTo(q, pos), Len(q), <<>>, pos)
PollResult(q, pos, limit) == ReadNew(q, SkipTo(q, pos), limit, <<>>, pos)

\* _poll_queue(limit), lines 139-140 first: no file, no events.
_poll_queue(missing, q, pos, limit) ==
    IF missing
    THEN [events |-> <<>>, queue_position |-> pos, at |-> 0]
    ELSE PollResult(q, pos, limit)

\* What last_poll records of a call.
NoPoll == [limit |-> 0, count |-> 0, missing |-> FALSE]
Polled(limit, r, missing) ==
    [limit |-> limit, count |-> Len(r.events), missing |-> missing]

InitQueue ==
    /\ queue = <<>>
    /\ queue_position = 0
    /\ returned = <<>>
    /\ max_read = 0
    /\ queue_missing = FALSE
    /\ last_poll = NoPoll

\* An external producer appends one line, well-formed or not; opening the
\* file for append creates it when it is missing.
AppendLine(ok) ==
    /\ appended < MaxLines
    /\ appended' = appended + 1
    /\ queue' = Append(queue, Line(appended + 1, ok))
    /\ queue_missing' = FALSE
    /\ UNCHANGED <<queue_position, returned, max_read, last_poll>>
    /\ UNCHANGED <<memVars, restartVars, watchVars, monButAppended, workVars, eventVars>>

\* One call of _poll_queue by the worker instance.
PollQueue(limit) ==
    /\ Len(returned) < MaxReturned
    /\ LET r == _poll_queue(queue_missing, queue, queue_position, limit) IN
         /\ last_poll' = Polled(limit, r, queue_missing)
         /\ queue_position' = r.queue_position
         /\ returned' = returned \o r.events
         /\ max_read' = Max(max_read, r.at)
    /\ UNCHANGED <<queue, queue_missing>>
    /\ UNCHANGED notQueueVars

Poll == \E limit \in Limits : PollQueue(limit)

NextQueue ==
    \/ \E ok \in BOOLEAN : AppendLine(ok)
    \/ Poll

\* The queue file is removed from outside while the instance runs
\* (_ensure_directories creates it only when the instance is built).
RemoveQueueFile ==
    /\ ~queue_missing
    /\ queue_missing' = TRUE
    /\ queue' = <<>>
    /\ UNCHANGED <<queue_position, returned, max_read, last_poll>>
    /\ UNCHANGED notQueueVars

NextQueueFile ==
    \/ \E ok \in BOOLEAN : AppendLine(ok)
    \/ Poll
    \/ RemoveQueueFile

\* ========================================================= the memory store
\* Bounds of the memory-store runs.
NumProcs == 2
MaxWrites == 2
MaxReads == 1
MaxCorruptions == 1
MaxCrashes == 1

Procs == 1 .. NumProcs
NoProc == 0

\* A file's content: absent, a complete memory document, a file whose write
\* did not complete (json.load rejects it), or a document damaged from outside
\* (json.load rejects it).
NoFile == [kind |-> "none", preferences |-> <<>>]
Doc(prefs) == [kind |-> "doc", preferences |-> prefs]
Partial == [kind |-> "partial", preferences |-> <<>>]
Garbage == [kind |-> "garbage", preferences |-> <<>>]

Remove(seq, x) == SelectSeq(seq, LAMBDA y : y # x)

Exists(f) == f.kind # "none"
\* json.load(f) succeeds
Parses(f) == f.kind = "doc"

_empty_memory == Doc(<<>>)

\* _read_memory_unsafe(memory_file), with backup_file its .backup sibling.
ReadBackupUnchecked(mf, bf) ==
    IF ~Exists(mf) THEN _empty_memory
    ELSE IF Parses(mf) THEN mf
    ELSE IF Exists(bf) THEN bf
    ELSE _empty_memory
ReadNoFallback(mf, bf) ==
    IF ~Exists(mf) THEN _empty_memory
    ELSE IF Parses(mf) THEN mf
    ELSE _empty_memory
_read_memory_unsafe(mf, bf) ==
    IF ~Exists(mf) THEN _empty_memory
    ELSE IF Parses(mf) THEN mf
    ELSE IF Exists(bf) /\ Parses(bf) THEN bf
    ELSE _empty_memory

\* fcntl.flock(lock.fileno(), fcntl.LOCK_EX) returns: nobody else holds it.
LockGranted_NoExclusion == TRUE
LockGranted == lock = NoProc

\* The lock after the finally block of a call of process p: released, on the
\* normal path and on the raising one.
UnlockedUnlessRaised(p) == IF pc[p] = "w_raise" THEN lock ELSE NoProc
Unlocked(p) == NoProc

\* memory['preferences'].append(preference)
AppendPreference(prefs, x) == Append(prefs, x)

\* What the `with open(tmp_file, 'w')` block leaves in tmp_file when
\* json.dump returned: the whole document.
DumpedUnflushed(prefs) == Partial
Dumped(prefs) == Doc(prefs)

\* The steps of write_memory and read_memory at which the lock is held.
WriteLocked == {"w_read", "w_backup", "w_copy", "w_open", "w_dump", "w_rename",
                "w_unlock", "w_raise"}
ReadLocked == {"r_read", "r_unlock"}
Locked == WriteLocked \cup ReadLocked

NoArg == [pref |-> 0, serializable |-> TRUE]

InitMemory ==
    /\ memory_file = NoFile
    /\ backup_file = NoFile
    /\ tmp_file = NoFile
    /\ lock = NoProc
    /\ pc = [p \in Procs |-> "idle"]
    /\ arg = [p \in Procs |-> NoArg]
    /\ memory = [p \in Procs |-> <<>>]
    /\ result = [p \in Procs |-> NoFile]
    /\ acquired = <<>>
    /\ ncalls = 0
    /\ nreads = 0
    /\ corruptions = 0
    /\ crashes = 0

\* write_memory(project_path, preference) is called; data_dir.mkdir and
\* open(lock_file) are done, flock is next.
CallWrite(p, ok) ==
    /\ pc[p] = "idle"
    /\ ncalls < MaxWrites
    /\ ncalls' = ncalls + 1
    /\ arg' = [arg EXCEPT ![p] = [pref |-> ncalls + 1, serializable |-> ok]]
    /\ pc' = [pc EXCEPT ![p] = "w_lock"]
    /\ result' = [result EXCEPT ![p] = NoFile]
    /\ UNCHANGED <<memory_file, backup_file, tmp_file, lock, memory,
                   acquired, nreads, corruptions, crashes>>
    /\ UNCHANGED notMemVars

\* line 44
WriteLock(p) ==
    /\ pc[p] = "w_lock"
    /\ LockGranted
    /\ lock' = p
    /\ acquired' = Append(acquired, arg[p].pref)
    /\ pc' = [pc EXCEPT ![p] = "w_read"]
    /\ UNCHANGED <<memory_file, backup_file, tmp_file, arg, memory, result,
                   ncalls, nreads, corruptions, crashes>>
    /\ UNCHANGED notMemVars

\* line 48
WriteRead(p) ==
    /\ pc[p] = "w_read"
    /\ memory' = [memory EXCEPT
                     ![p] = _read_memory_unsafe(memory_file, backup_file).preferences]
    /\ pc' = [pc EXCEPT ![p] = "w_backup"]
    /\ UNCHANGED <<memory_file, backup_file, tmp_file, lock, arg, result,
                   acquired, ncalls, nreads, corruptions, crashes>>
    /\ UNCHANGED notMemVars

\* lines 51-52: shutil.copy2 opens (truncates) the backup ...
WriteBackupOpen(p) ==
    /\ pc[p] = "w_backup"
    /\ Exists(memory_file)
    /\ backup_file' = Partial
    /\ pc' = [pc EXCEPT ![p] = "w_copy"]
    /\ UNCHANGED <<memory_file, tmp_file, lock, arg, memory, result,
                   acquired, ncalls, nreads, corruptions, crashes>>
    /\ UNCHANGED notMemVars

\* ... and copies the primary's bytes into it, whatever they are.
WriteBackupCopy(p) ==
    /\ pc[p] = "w_copy"
    /\ backup_file' = memory_file
    /\ pc' = [pc EXCEPT ![p] = "w_open"]
    /\ UNCHANGED <<memory_file, tmp_file, lock, arg, memory, result,
                   acquired, ncalls, nreads, corruptions, crashes>>
    /\ UNCHANGED notMemVars

\* line 51, no primary yet: nothing to back up.
WriteNoBackup(p) ==
    /\ pc[p] = "w_backup"
    /\ ~Exists(memory_file)
    /\ pc' = [pc EXCEPT ![p] = "w_open"]
    /\ UNCHANGED <<memory_file, backup_file, tmp_file, lock, arg, memory, result,
                   acquired, ncalls, nreads, corruptions, crashes>>
    /\ UNCHANGED notMemVars

\* lines 56-61: the preference is appended to the local list and
\* open(tmp_file, 'w') creates or truncates the temporary file.
WriteOpenTmp(p) ==
    /\ pc[p] = "w_open"
    /\ memory' = [memory EXCEPT ![p] = AppendPreference(memory[p], arg[p].pref)]
    /\ tmp_file' = Partial
    /\ pc' = [pc EXCEPT ![p] = "w_dump"]
    /\ UNCHANGED <<memory_file, backup_file, lock, arg, result,
                   acquired, ncalls, nreads, corruptions, crashes>>
    /\ UNCHANGED notMemVars

\* line 62: json.dump writes the document, or raises TypeError part-way on a
\* preference it cannot serialize.
WriteDump(p) ==
    /\ pc[p] = "w_dump"
    /\ IF arg[p].serializable
       THEN /\ tmp_file' = Dumped(memory[p])
            /\ pc' = [pc EXCEPT ![p] = "w_rename"]
       ELSE /\ tmp_file' = Partial
            /\ pc' = [pc EXCEPT ![p] = "w_raise"]
    /\ UNCHANGED <<memory_file, backup_file, lock, arg, memory, result,
                   acquired, ncalls, nreads, corruptions, crashes>>
    /\ UNCHANGED notMemVars

\* line 65: os.replace(tmp_file, memory_file)
WriteRename(p) ==
    /\ pc[p] = "w_rename"
    /\ memory_file' = tmp_file
    /\ tmp_file' = NoFile
    /\ pc' = [pc EXCEPT ![p] = "w_unlock"]
    /\ UNCHANGED <<backup_file, lock, arg, memory, result,
                   acquired, ncalls, nreads, corruptions, crashes>>
    /\ UNCHANGED notMemVars

\* lines 68-70: the finally block, on the normal path and on the raising one.
WriteUnlock(p) ==
    /\ pc[p] \in {"w_unlock", "w_raise"}
    /\ lock' = Unlocked(p)
    /\ acquired' = IF pc[p] = "w_raise" THEN Remove(acquired, arg[p].pref) ELSE acquired
    /\ pc' = [pc EXCEPT ![p] = "idle"]
    /\ memory' = [memory EXCEPT ![p] = <<>>]
    /\ arg' = [arg EXCEPT ![p] = NoArg]
    /\ UNCHANGED <<memory_file, backup_file, tmp_file, result,
                   ncalls, nreads, corruptions, crashes>>
    /\ UNCHANGED notMemVars

\* read_memory(project_path), lines 87-88: without a primary document the
\* empty memory is returned, and no lock is taken.
CallRead(p) ==
    /\ pc[p] = "idle"
    /\ nreads < MaxReads
    /\ nreads' = nreads + 1
    /\ IF ~Exists(memory_file)
       THEN /\ result' = [result EXCEPT ![p] = _empty_memory]
            /\ pc' = pc
       ELSE /\ result' = [result EXCEPT ![p] = NoFile]
            /\ pc' = [pc EXCEPT ![p] = "r_lock"]
    /\ UNCHANGED <<memory_file, backup_file, tmp_file, lock, arg, memory,
                   acquired, ncalls, corruptions, crashes>>
    /\ UNCHANGED notMemVars

\* line 96
ReadLock(p) ==
    /\ pc[p] = "r_lock"
    /\ LockGranted
    /\ lock' = p
    /\ pc' = [pc EXCEPT ![p] = "r_read"]
    /\ UNCHANGED <<memory_file, backup_file, tmp_file, arg, memory, result,
                   acquired, ncalls, nreads, corruptions, crashes>>
    /\ UNCHANGED notMemVars

\* line 99
ReadRead(p) ==
    /\ pc[p] = "r_read"
    /\ result' = [result EXCEPT ![p] = _read_memory_unsafe(memory_file, backup_file)]
    /\ pc' = [pc EXCEPT ![p] = "r_unlock"]
    /\ UNCHANGED <<memory_file, backup_file, tmp_file, lock, arg, memory,
                   acquired, ncalls, nreads, corruptions, crashes>>
    /\ UNCHANGED notMemVars

\* lines 101-103
ReadUnlock(p) ==
    /\ pc[p] = "r_unlock"
    /\ lock' = Unlocked(p)
    /\ pc' = [pc EXCEPT ![p] = "idle"]
    /\ UNCHANGED <<memory_file, backup_file, tmp_file, arg, memory, result,
                   acquired, ncalls, nreads, corruptions, crashes>>
    /\ UNCHANGED notMemVars

\* The process is killed inside a call; the kernel drops its flock.
Crash(p) ==
    /\ pc[p] # "idle"
    /\ crashes < MaxCrashes
    /\ crashes' = crashes + 1
    /\ lock' = IF lock = p THEN NoProc ELSE lock
    /\ acquired' = IF pc[p] \in WriteLocked \ {"w_unlock"}
                   THEN Remove(acquired, arg[p].pref) ELSE acquired
    /\ pc' = [pc EXCEPT ![p] = "idle"]
    /\ memory' = [memory EXCEPT ![p] = <<>>]
    /\ result' = [result EXCEPT ![p] = NoFile]
    /\ arg' = [arg EXCEPT ![p] = NoArg]
    /\ UNCHANGED <<memory_file, backup_file, tmp_file, ncalls, nreads, corruptions>>
    /\ UNCHANGED notMemVars

\* The primary document is damaged from outside (it stops being valid JSON).
Corrupt ==
    /\ Parses(memory_file)
    /\ corruptions < MaxCorruptions
    /\ corruptions' = corruptions + 1
    /\ memory_file' = Garbage
    /\ UNCHANGED <<backup_file, tmp_file, lock, pc, arg, memory, result,
                   acquired, ncalls, nreads, crashes>>
    /\ UNCHANGED notMemVars

NextMemory ==
    \/ \E p \in Procs, ok \in BOOLEAN : CallWrite(p, ok)
    \/ \E p \in Procs : WriteLock(p)
    \/ \E p \in Procs : WriteRead(p)
    \/ \E p \in Procs : WriteBackupOpen(p)
    \/ \E p \in Procs : WriteBackupCopy(p)
    \/ \E p \in Procs : WriteNoBackup(p)
    \/ \E p \in Procs : WriteOpenTmp(p)
    \/ \E p \in Procs : WriteDump(p)
    \/ \E p \in Procs : WriteRename(p)
    \/ \E p \in Procs : WriteUnlock(p)
    \/ \E p \in Procs : CallRead(p)
    \/ \E p \in Procs : ReadLock(p)
    \/ \E p \in Procs : ReadRead(p)
    \/ \E p \in Procs : ReadUnlock(p)
    \/ \E p \in Procs : Crash(p)
    \/ Corrupt

\* =================================================== the restart controller
\* Seconds the clock is followed for.
MaxTime == 64

\* Launches that reach worker.run() are counted up to this number.
MaxEntered == 6
\* The largest restart_count a state file handed to update_restart_state holds.
MaxPersisted == 12

\* "Give up after 5 consecutive crashes"
GiveUpCount == 5
\* "max 1 hour"
MaxBackoff == 3600

\* The restart state file: absent, a JSON object, or a file whose write did
\* not complete (json.load raises on it).
NoState == [kind |-> "none", restart_count |-> 0, backoff_until |-> 0]
State(count, until) == [kind |-> "state", restart_count |-> count, backoff_until |-> until]
PartialState == [kind |-> "partial", restart_count |-> 0, backoff_until |-> 0]

StateExists(f) == f.kind # "none"
StateParses(f) == f.kind = "state"

\* should_restart_worker() with the state file f, the clock reading t.
should_restart_worker_Off(f, t) ==
    IF ~StateExists(f) THEN TRUE
    ELSE IF ~StateParses(f) THEN TRUE
    ELSE IF t < f.backoff_until THEN FALSE
    ELSE IF f.restart_count > GiveUpCount THEN FALSE
    ELSE TRUE
should_restart_worker(f, t) ==
    IF ~StateExists(f) THEN TRUE
    ELSE IF ~StateParses(f) THEN TRUE
    ELSE IF t < f.backoff_until THEN FALSE
    ELSE IF f.restart_count >= GiveUpCount THEN FALSE
    ELSE TRUE

\* backoff_seconds = min(2 ** state['restart_count'], 3600), where
\* state['restart_count'] is the count already incremented.
BackoffSeconds_PreIncrement(count) == Min(2 ^ (count - 1), MaxBackoff)
BackoffSeconds_Uncapped(count) == 2 ^ count
BackoffSeconds(count) == Min(2 ^ count, MaxBackoff)

\* The state update_restart_state computes from the state file f at time t.
NewState(f, t) ==
    LET old == IF StateExists(f) /\ StateParses(f) THEN f ELSE State(0, 0)
        count == old.restart_count + 1
    IN  State(count, t + BackoffSeconds(count))

InitRestart ==
    /\ state_file = NoState
    /\ now = 0
    /\ rpc = "stopped"
    /\ state = NoState
    /\ time_read = 0
    /\ before = NoState
    /\ entered = 0

\* A second passes.
Tick ==
    /\ now < MaxTime
    /\ now' = now + 1
    /\ UNCHANGED <<state_file, rpc, state, time_read, before, entered>>
    /\ UNCHANGED notRestartVars

\* The supervisor launches the worker executable: main() starts.
Launch ==
    /\ rpc = "stopped"
    /\ rpc' = "check"
    /\ state' = NoState
    /\ before' = NoState
    /\ UNCHANGED <<state_file, now, time_read, entered>>
    /\ UNCHANGED notRestartVars

\* main(), line 315: should_restart_worker()
ShouldRestart ==
    /\ rpc = "check"
    /\ time_read' = now
    /\ rpc' = IF should_restart_worker(state_file, now) THEN "update" ELSE "denied"
    /\ UNCHANGED entered
    /\ UNCHANGED <<state_file, now, state, before>>
    /\ UNCHANGED notRestartVars

\* main(), lines 316-317: sys.exit(1)
ExitDenied ==
    /\ rpc = "denied"
    /\ rpc' = "stopped"
    /\ state' = NoState /\ before' = NoState /\ time_read' = 0
    /\ UNCHANGED <<state_file, now, entered>>
    /\ UNCHANGED notRestartVars

\* update_restart_state(), lines 287-301
UpdateCompute ==
    /\ rpc = "update"
    /\ before' = state_file
    /\ time_read' = now
    /\ state' = NewState(state_file, now)
    /\ rpc' = "u_open"
    /\ UNCHANGED <<state_file, now, entered>>
    /\ UNCHANGED notRestartVars

\* line 305: open(RESTART_STATE_FILE, 'w') truncates the file
UpdateOpen ==
    /\ rpc = "u_open"
    /\ state_file' = PartialState
    /\ rpc' = "u_dump"
    /\ UNCHANGED <<now, state, time_read, before, entered>>
    /\ UNCHANGED notRestartVars

\* line 306: json.dump(state, f); main() goes on to worker.run()
UpdateDump ==
    /\ rpc = "u_dump"
    /\ state_file' = state
    /\ rpc' = "run"
    /\ entered' = Min(entered + 1, MaxEntered)
    /\ UNCHANGED <<now, state, time_read, before>>
    /\ UNCHANGED notRestartVars

\* worker.run() ends: a clean exit, a fatal error or the watchdog's kill.
WorkerExit ==
    /\ rpc = "run"
    /\ rpc' = "stopped"
    /\ state' = NoState /\ before' = NoState /\ time_read' = 0
    /\ UNCHANGED <<state_file, now, entered>>
    /\ UNCHANGED notRestartVars

\* The process is killed inside update_restart_state.
Kill ==
    /\ rpc \in {"update", "u_open", "u_dump"}
    /\ rpc' = "stopped"
    /\ state' = NoState /\ before' = NoState /\ time_read' = 0
    /\ UNCHANGED <<state_file, now, entered>>
    /\ UNCHANGED notRestartVars

NextRestart ==
    \/ Tick
    \/ Launch
    \/ ShouldRestart
    \/ ExitDenied
    \/ UpdateCompute
    \/ UpdateOpen
    \/ UpdateDump
    \/ WorkerExit
    \/ Kill

\* update_restart_state() on its own: called on a state file that holds any
\* restart_count, on no file, or on a file that does not parse.
InitBackoff ==
    /\ state_file \in {State(c, 0) : c \in 0 .. MaxPersisted} \cup {NoState, PartialState}
    /\ now = 0
    /\ rpc = "update"
    /\ state = NoState
    /\ time_read = 0
    /\ before = NoState
    /\ entered = 0

NextBackoff ==
    \/ Tick
    \/ UpdateCompute
    \/ UpdateOpen
    \/ UpdateDump

\* ============================================================ the watchdog
\* HealthMonitor(timeout_seconds): the timeout the instance is built with.
TimeoutSeconds == 15
\* Seconds the clock is followed for.
MaxClock == 36
\* start() calls that create a thread.
MaxStarts == 1

\* time.sleep(10)
PollInterval == 10

Threads == 1 .. MaxStarts

\* _watchdog_loop, line 56
IdleTooLong_PollInterval(idle_time) == idle_time > PollInterval
IdleTooLong(idle_time) == idle_time > TimeoutSeconds

\* _dump_debug_info(): TRUE when it returns to its caller, whether or not
\* gathering the metrics raised.
DumpReturns_UnlessRaised(raised) == ~raised
DumpReturns(raised) == TRUE

InitWatch ==
    /\ clock = 0
    /\ last_activity = 0
    /\ _running = FALSE
    /\ wpc = [t \in Threads |-> "none"]
    /\ wake_at = [t \in Threads |-> 0]
    /\ nthreads = 0
    /\ exited = FALSE
    /\ metrics_failed = FALSE
    /\ running_since = 0
    /\ stop_call = "no"
    /\ overdue = FALSE

\* stop(), line 77: join(timeout=1) is over, and stop() has returned, when a
\* second has passed since the call.
JoinOver(call) == IF call = "joining" THEN "returned" ELSE call

\* A second passes.  A thread whose sleep is over, or that is between two
\* sleeps, runs before the clock moves on.
Advance ==
    /\ ~exited
    /\ clock < MaxClock
    /\ \A t \in Threads : wpc[t] # "top" /\ (wpc[t] = "sleep" => wake_at[t] > clock)
    /\ clock' = clock + 1
    /\ overdue' = (overdue \/ clock + 1 - last_activity > TimeoutSeconds)
    /\ stop_call' = JoinOver(stop_call)
    /\ UNCHANGED <<last_activity, _running, wpc, wake_at, nthreads, exited,
                   metrics_failed, running_since>>
    /\ UNCHANGED notWatchVars

\* start()
Start ==
    /\ ~exited
    /\ IF _running
       THEN UNCHANGED <<_running, wpc, nthreads, running_since, stop_call>>
       ELSE /\ nthreads < MaxStarts
            /\ _running' = TRUE
            /\ nthreads' = nthreads + 1
            /\ wpc' = [wpc EXCEPT ![nthreads + 1] = "top"]
            /\ running_since' = clock
            /\ stop_call' = "no"
    /\ UNCHANGED <<clock, last_activity, wake_at, exited, metrics_failed, overdue>>
    /\ UNCHANGED notWatchVars

\* stop(), lines 75-77: the call waits in join(timeout=1); a call made after
\* an earlier one returned changes nothing about that.
Joining(call) == IF call = "returned" THEN "returned" ELSE "joining"

\* stop(): join(timeout=1) waits at most a second for the thread.
Stop ==
    /\ ~exited
    /\ _running' = FALSE
    /\ stop_call' = Joining(stop_call)
    /\ UNCHANGED <<clock, last_activity, wpc, wake_at, nthreads, exited,
                   metrics_failed, running_since, overdue>>
    /\ UNCHANGED notWatchVars

\* update_activity()
UpdateActivity ==
    /\ ~exited
    /\ last_activity' = clock
    /\ UNCHANGED <<clock, _running, wpc, wake_at, nthreads, exited,
                   metrics_failed, running_since, stop_call, overdue>>
    /\ UNCHANGED notWatchVars

\* _watchdog_loop, lines 52-53: while self._running: time.sleep(10)
WatchdogTop(t) ==
    /\ ~exited
    /\ wpc[t] = "top"
    /\ IF _running
       THEN wpc' = [wpc EXCEPT ![t] = "sleep"] /\ wake_at' = [wake_at EXCEPT ![t] = clock + PollInterval]
       ELSE wpc' = [wpc EXCEPT ![t] = "done"] /\ UNCHANGED wake_at
    /\ UNCHANGED <<clock, last_activity, _running, nthreads, exited,
                   metrics_failed, running_since, stop_call, overdue>>
    /\ UNCHANGED notWatchVars

\* _watchdog_loop, lines 55-60: the poll after a sleep
WatchdogPoll(t, raised) ==
    /\ ~exited
    /\ wpc[t] = "sleep"
    /\ wake_at[t] = clock
    /\ IF IdleTooLong(clock - last_activity)
       THEN IF DumpReturns(raised)
            THEN /\ exited' = TRUE
                 /\ metrics_failed' = raised
                 /\ UNCHANGED wpc
            ELSE /\ wpc' = [wpc EXCEPT ![t] = "done"]
                 /\ UNCHANGED <<exited, metrics_failed>>
       ELSE /\ wpc' = [wpc EXCEPT ![t] = "top"]
            /\ UNCHANGED <<exited, metrics_failed>>
    /\ UNCHANGED <<clock, last_activity, _running, wake_at, nthreads,
                   running_since, stop_call, overdue>>
    /\ UNCHANGED notWatchVars

NextWatch ==
    \/ Advance
    \/ Start
    \/ Stop
    \/ UpdateActivity
    \/ \E t \in Threads : WatchdogTop(t)
    \/ \E t \in Threads, raised \in BOOLEAN : WatchdogPoll(t, raised)

\* ========================================================= the worker loop
MAX_EVENTS_BEFORE_RESTART == 100

\* A heartbeat file: absent, opened for writing and not yet complete, or the
\* complete JSON document of one dump.
NoHeartbeat == "none"
PartialHeartbeat == "partial"
Heartbeat == "complete"

\* run(), line 97: the test made after the post-batch heartbeat
RestartDue_ExactCount(n) == n = MAX_EVENTS_BEFORE_RESTART
RestartDue(n) == n >= MAX_EVENTS_BEFORE_RESTART

\* run(), lines 86-91: TRUE when the exception a handler raised is caught by
\* the try around that one event.
HandlerCaught_Propagates(raised) == ~raised
HandlerCaught(raised) == TRUE

\* Values of event.get('event_type', 'unknown'), line 185.
EventTypes == {"stop", "session_start", "session_end", "unknown"}

\* Directories: the one the worker is started in and one project directory.
StartDir == "start"
ProjectDir == "project"

\* Values of event.get('project', ''), line 186: no project, a path that is
\* a directory, a path that is not.
NoProject == ""
MissingDir == "missing"
Projects == {NoProject, ProjectDir, MissingDir}

\* os.path.isdir(project), line 192
IsDir(path) == path = ProjectDir

\* A decoded event.  preference is TRUE when correction detection and
\* preference extraction, run on the transcript of a stop event, would yield
\* a structured preference.
Events ==
    {e \in [event_type : EventTypes, project : Projects, preference : BOOLEAN] :
        e.preference => e.event_type = "stop"}
NoEvent == [event_type |-> "none", project |-> NoProject, preference |-> FALSE]

\* _process_event, lines 191-193: the directory the type handler runs in
HandlerDir(original_cwd, project) ==
    IF project # NoProject /\ IsDir(project) THEN project ELSE original_cwd

\* _process_event, lines 195-207: the working directory when the call is
\* over; the finally clause runs os.chdir(original_cwd) on return and on raise.
RestoredDir_OnReturnOnly(original_cwd, handler_dir, raised) ==
    IF raised THEN handler_dir ELSE original_cwd
RestoredDir(original_cwd, handler_dir, raised) == original_cwd

\* The memory document of the event's project after the type handler, lines
\* 195-203 and 209-250: _process_stop_event and _process_session_end_event
\* only log, _process_session_start_event calls read_memory, an unknown type
\* is logged; no branch calls write_memory.
MemoryAfterHandler(e, mf) == mf

InitWorker ==
    /\ cwd = StartDir
    /\ handler_cwd = StartDir
    /\ event = NoEvent
    /\ wkpc = "init"
    /\ after_hb = "poll"
    /\ batch = <<>>
    /\ idx = 1
    /\ events_processed = 0
    /\ dispatched = <<>>
    /\ failed = {}
    /\ exit_reason = "none"
    /\ worker_heartbeat = NoHeartbeat
    /\ worker_tmp = NoHeartbeat

\* What update_activity() and stop() leave alone in the HealthMonitor and
\* its record of the stop() call.
watchButActivity == <<clock, _running, wpc, wake_at, nthreads, exited, metrics_failed,
                      running_since, stop_call, overdue>>
watchButRunning == <<clock, last_activity, wpc, wake_at, nthreads, exited,
                     metrics_failed, running_since, overdue>>

\* run(), lines 72-73: health_monitor.start()
WorkerRun ==
    /\ wkpc = "init"
    /\ _running' = TRUE
    /\ nthreads' = nthreads + 1
    /\ wpc' = [wpc EXCEPT ![nthreads + 1] = "top"]
    /\ running_since' = clock
    /\ stop_call' = "no"
    /\ wkpc' = "hb_open"
    /\ UNCHANGED <<clock, last_activity, wake_at, exited, metrics_failed, overdue>>
    /\ UNCHANGED <<after_hb, batch, idx, events_processed, dispatched, failed,
                   exit_reason, worker_heartbeat, worker_tmp>>
    /\ UNCHANGED queueVars
    /\ UNCHANGED notWorkVars

\* _write_heartbeat(), lines 123-124: open(tmp_file, 'w')
WorkerHeartbeatOpen ==
    /\ wkpc = "hb_open"
    /\ worker_tmp' = PartialHeartbeat
    /\ wkpc' = "hb_dump"
    /\ UNCHANGED <<after_hb, batch, idx, events_processed, dispatched, failed,
                   exit_reason, worker_heartbeat>>
    /\ UNCHANGED <<queueVars, watchVars>>
    /\ UNCHANGED notWorkVars

\* _write_heartbeat(), line 125: json.dump(heartbeat, f, indent=2), and the close
WorkerHeartbeatDump ==
    /\ wkpc = "hb_dump"
    /\ worker_tmp' = Heartbeat
    /\ wkpc' = "hb_rename"
    /\ UNCHANGED <<after_hb, batch, idx, events_processed, dispatched, failed,
                   exit_reason, worker_heartbeat>>
    /\ UNCHANGED <<queueVars, watchVars>>
    /\ UNCHANGED notWorkVars

\* _write_heartbeat(), line 126: os.replace(tmp_file, HEARTBEAT_FILE)
WorkerHeartbeatRename ==
    /\ wkpc = "hb_rename"
    /\ worker_heartbeat' = worker_tmp
    /\ worker_tmp' = NoHeartbeat
    /\ wkpc' = after_hb
    /\ UNCHANGED <<after_hb, batch, idx, events_processed, dispatched, failed,
                   exit_reason>>
    /\ UNCHANGED <<queueVars, watchVars>>
    /\ UNCHANGED notWorkVars

\* run(), lines 79-82: update_activity(); events = self._poll_queue(limit=10).
\* Polls are followed until MaxReturned events were returned, or as many as
\* the file has lines when it has more.
WorkerPoll ==
    /\ wkpc = "poll"
    /\ Len(returned) < Max(MaxReturned, Len(queue))
    /\ last_activity' = clock
    /\ LET r == _poll_queue(queue_missing, queue, queue_position, DefaultLimit) IN
         /\ last_poll' = Polled(DefaultLimit, r, queue_missing)
         /\ queue_position' = r.queue_position
         /\ returned' = returned \o r.events
         /\ max_read' = Max(max_read, r.at)
         /\ batch' = r.events
    /\ idx' = 1
    /\ wkpc' = "dispatch"
    /\ UNCHANGED <<queue, queue_missing>>
    /\ UNCHANGED watchButActivity
    /\ UNCHANGED <<after_hb, events_processed, dispatched, failed, exit_reason,
                   worker_heartbeat, worker_tmp>>
    /\ UNCHANGED notWorkVars

\* run(), lines 85-91, and _process_event: one turn of the for loop on event
\* e; the type handler returns or raises.  Raising handlers are followed
\* among the first MaxReturned dispatches.
WorkerDispatch(raised, e) ==
    /\ wkpc = "dispatch"
    /\ idx <= Len(batch)
    /\ raised => Len(dispatched) < MaxReturned
    /\ dispatched' = Append(dispatched, batch[idx])
    /\ event' = e
    /\ handler_cwd' = HandlerDir(cwd, e.project)
    /\ cwd' = RestoredDir(cwd, HandlerDir(cwd, e.project), raised)
    /\ memory_file' = MemoryAfterHandler(e, memory_file)
    /\ IF ~raised
       THEN /\ events_processed' = events_processed + 1
            /\ last_activity' = clock
            /\ idx' = idx + 1
            /\ UNCHANGED <<failed, wkpc, exit_reason, _running, stop_call>>
       ELSE /\ failed' = failed \cup {Len(dispatched) + 1}
            /\ UNCHANGED <<events_processed, last_activity>>
            /\ IF HandlerCaught(raised)
               THEN /\ idx' = idx + 1
                    /\ UNCHANGED <<wkpc, exit_reason, _running, stop_call>>
               ELSE \* lines 106-110: the error ends run()
                    /\ wkpc' = "exited"
                    /\ exit_reason' = "fatal"
                    /\ _running' = FALSE
                    /\ stop_call' = Joining(stop_call)
                    /\ UNCHANGED idx
    /\ UNCHANGED <<clock, wpc, wake_at, nthreads, exited, metrics_failed,
                   running_since, overdue>>
    /\ UNCHANGED <<after_hb, batch, worker_heartbeat, worker_tmp>>
    /\ UNCHANGED queueVars
    /\ UNCHANGED <<backup_file, tmp_file, lock, pc, arg, memory, result, acquired,
                   ncalls, nreads, corruptions, crashes>>
    /\ UNCHANGED <<restartVars, monVars>>

\* run(), lines 93-94: the for loop is over
WorkerBatchDone ==
    /\ wkpc = "dispatch"
    /\ idx > Len(batch)
    /\ wkpc' = "hb_open"
    /\ after_hb' = "restart_check"
    /\ UNCHANGED <<batch, idx, events_processed, dispatched, failed, exit_reason,
                   worker_heartbeat, worker_tmp>>
    /\ UNCHANGED <<queueVars, watchVars>>
    /\ UNCHANGED notWorkVars

\* run(), lines 97-102 (and 109-110 when sys.exit(0) is called)
WorkerRestartCheck ==
    /\ wkpc = "restart_check"
    /\ IF RestartDue(events_processed)
       THEN /\ wkpc' = "exited"
            /\ exit_reason' = "restart"
            /\ _running' = FALSE
            /\ stop_call' = Joining(stop_call)
            /\ UNCHANGED after_hb
       ELSE /\ wkpc' = "hb_open"
            /\ after_hb' = "poll"
            /\ UNCHANGED <<exit_reason, _running, stop_call>>
    /\ UNCHANGED watchButRunning
    /\ UNCHANGED <<batch, idx, events_processed, dispatched, failed,
                   worker_heartbeat, worker_tmp>>
    /\ UNCHANGED queueVars
    /\ UNCHANGED notWorkVars

\* run(), lines 104-105 and 109-110: KeyboardInterrupt
WorkerInterrupt ==
    /\ wkpc \notin {"init", "exited"}
    /\ wkpc' = "exited"
    /\ exit_reason' = "interrupt"
    /\ _running' = FALSE
    /\ stop_call' = Joining(stop_call)
    /\ UNCHANGED watchButRunning
    /\ UNCHANGED <<after_hb, batch, idx, events_processed, dispatched, failed,
                   worker_heartbeat, worker_tmp>>
    /\ UNCHANGED queueVars
    /\ UNCHANGED notWorkVars

\* An external producer appends one line while the worker runs.
WorkerAppendLine(ok) ==
    /\ Len(queue) < MaxLines
    /\ queue' = Append(queue, Line(Len(queue) + 1, ok))
    /\ queue_missing' = FALSE
    /\ UNCHANGED <<queue_position, returned, max_read, last_poll>>
    /\ UNCHANGED <<watchVars, workVars>>
    /\ UNCHANGED notWorkVars

NextWorker ==
    \/ \E ok \in BOOLEAN : WorkerAppendLine(ok)
    \/ WorkerRun
    \/ WorkerHeartbeatOpen
    \/ WorkerHeartbeatDump
    \/ WorkerHeartbeatRename
    \/ WorkerPoll
    \/ \E raised \in BOOLEAN, e \in Events : WorkerDispatch(raised, e)
    \/ WorkerBatchDone
    \/ WorkerRestartCheck
    \/ WorkerInterrupt

\* ------------------------------------------- one instance through a backlog
\* Lines the queue file can hold when the instance starts.
MaxBacklogLines == 110

\* The instance starts on a file of well-formed lines that is long enough for
\* the count of MAX_EVENTS_BEFORE_RESTART to be reached by polls of DefaultLimit.
BacklogSizes ==
    {MaxBacklogLines - DefaultLimit, MaxBacklogLines - DefaultLimit \div 2, MaxBacklogLines}

\* The events of the backlog name no project and carry no preference.
BacklogEvent == [event_type |-> "session_end", project |-> NoProject, preference |-> FALSE]

NextLongRun ==
    \/ WorkerRun
    \/ WorkerHeartbeatOpen
    \/ WorkerHeartbeatDump
    \/ WorkerHeartbeatRename
    \/ WorkerPoll
    \/ \E raised \in BOOLEAN : WorkerDispatch(raised, BacklogEvent)
    \/ WorkerBatchDone
    \/ WorkerRestartCheck
    \/ WorkerInterrupt

\* The steps of run() itself, which go on for as long as the process lives.
RunStep ==
    \/ WorkerRun
    \/ WorkerHeartbeatOpen
    \/ WorkerHeartbeatDump
    \/ WorkerHeartbeatRename
    \/ WorkerPoll
    \/ \E raised \in BOOLEAN : WorkerDispatch(raised, BacklogEvent)
    \/ WorkerBatchDone
    \/ WorkerRestartCheck

\* ============================================================= the monitor
\* Iterations of main()'s loop that are followed.
MaxIterations == 12
\* Lines the queue file holds at most.
MaxDepth == 12
\* Lines of the queue file the monitor may find when it starts: events older
\* than the archive age, and recent ones.
OldBacklog == 3
NewBacklog == 9

TriggerThreshold == 10
CheckInterval == 30
ArchiveAgeDays == 7
\* "(at least 5 minutes between triggers)"
Cooldown == 300
\* "Archive old events every 10 iterations"
ArchiveEvery == 10
\* 24 * 60 * 60; also the modulus of timedelta.seconds
DaySeconds == 86400

\* last_trigger_time = None
NoTime == -1

\* The monitor starts when events stamped 0 are about to pass the archive age.
StartClock == ArchiveAgeDays * DaySeconds
OldStamp == 0
RecentStamp == StartClock
MaxMonClock == StartClock + DaySeconds + MaxIterations * CheckInterval

\* A line of the queue file as the monitor reads it: a JSON object with a
\* timestamp ("event"), text json.loads rejects ("malformed"), or a line of
\* white space only ("blank").
QLine(n, kind, ts) ==
    [id |-> n, valid |-> kind = "event", blank |-> kind = "blank", timestamp |-> ts]

Backlog(old, new) ==
    [i \in 1 .. old + new |->
        QLine(i, "event", IF i <= old THEN OldStamp ELSE RecentStamp)]

\* count_queue_events(): sum(1 for line in f if line.strip())
count_queue_events(q) == Cardinality({i \in 1 .. Len(q) : ~q[i].blank})

\* timedelta.seconds: the seconds left over after the whole days
TimedeltaSeconds(d) == d % DaySeconds

\* main(), lines 196-197
TriggerDue_NoCooldown(last, t) == TRUE
TriggerDue(last, t) == last = NoTime \/ TimedeltaSeconds(t - last) > Cooldown

\* archive_old_events(), line 111
CutoffTime(t) == t - ArchiveAgeDays * DaySeconds

\* archive_old_events(), lines 115-130: the two lists built from the lines read
ToArchive(q, cutoff) ==
    SelectSeq(q, LAMBDA l : ~l.blank /\ l.valid /\ l.timestamp < cutoff)
ToKeep(q, cutoff) ==
    SelectSeq(q, LAMBDA l : ~l.blank /\ (~l.valid \/ l.timestamp >= cutoff))

\* What is left of a line whose first bytes were overwritten.
Fragment(l) == QLine(l.id, "malformed", 0)

\* open(QUEUE_FILE, 'w') ... f.writelines(events_to_keep): the bytes of keep
\* are written from offset 0 over whatever was appended to the file since the
\* truncation; how many of those lines they cover depends on the lengths.
Rewritten(keep, cur) ==
    IF keep = <<>> THEN {cur}
    ELSE IF cur = <<>> THEN {keep}
    ELSE UNION {{keep \o frag \o SubSeq(cur, k + 1, Len(cur)) :
                    frag \in {<<>>, <<Fragment(cur[k])>>}} : k \in 1 .. Len(cur)}

\* main(), lines 207-208
AfterThresholdCheck == IF iteration % ArchiveEvery = 0 THEN "a_read" ELSE "sleep"

InitMonitor ==
    /\ mclock = StartClock
    /\ last_trigger_time = NoTime
    /\ iteration = 0
    /\ mpc = "count"
    /\ queue_size = 0
    /\ exit_status = "none"
    /\ decision = [elapsed |-> NoTime, fired |-> FALSE]
    /\ monitor_heartbeat = NoHeartbeat
    /\ monitor_tmp = NoHeartbeat
    /\ archive_file = <<>>
    /\ events_to_keep = <<>>
    /\ events_to_archive = <<>>
    /\ appended = 0
    /\ qlock = "none"
    /\ ppc = "idle"
    /\ torn_read = FALSE

\* A producer appends one line to the queue file.
Produce(kind, ts) ==
    /\ Len(queue) + Len(events_to_keep) < MaxDepth
    /\ appended' = appended + 1
    /\ queue' = Append(queue, QLine(appended + 1, kind, ts))
    /\ queue_missing' = FALSE
    /\ UNCHANGED <<queue_position, returned, max_read, last_poll>>
    /\ UNCHANGED <<mclock, last_trigger_time, iteration, mpc, queue_size,
                   exit_status, decision, monitor_heartbeat, monitor_tmp, archive_file,
                   events_to_keep, events_to_archive, qlock, ppc, torn_read>>
    /\ UNCHANGED notMonVars

\* main(), lines 183-186: iteration += 1; queue_size = count_queue_events()
MonitorCount ==
    /\ mpc = "count"
    /\ iteration' = iteration + 1
    /\ queue_size' = count_queue_events(queue)
    /\ mpc' = "hb_open"
    /\ decision' = [elapsed |-> NoTime, fired |-> FALSE]
    /\ UNCHANGED <<mclock, last_trigger_time, exit_status,
                   monitor_heartbeat, monitor_tmp, archive_file, events_to_keep,
                   events_to_archive, appended, qlock, ppc, torn_read>>
    /\ UNCHANGED queueVars
    /\ UNCHANGED notMonVars

\* write_heartbeat(), lines 160-161: open(tmp_file, 'w')
HeartbeatOpen ==
    /\ mpc = "hb_open"
    /\ monitor_tmp' = PartialHeartbeat
    /\ mpc' = "hb_tmp"
    /\ UNCHANGED <<mclock, last_trigger_time, iteration, queue_size,
                   exit_status, decision, monitor_heartbeat, archive_file,
                   events_to_keep, events_to_archive, appended, qlock, ppc, torn_read>>
    /\ UNCHANGED queueVars
    /\ UNCHANGED notMonVars

\* write_heartbeat(), line 162: json.dump(heartbeat, f), and the close
HeartbeatDump ==
    /\ mpc = "hb_tmp"
    /\ monitor_tmp' = Heartbeat
    /\ mpc' = "hb_rename"
    /\ UNCHANGED <<mclock, last_trigger_time, iteration, queue_size,
                   exit_status, decision, monitor_heartbeat, archive_file,
                   events_to_keep, events_to_archive, appended, qlock, ppc, torn_read>>
    /\ UNCHANGED queueVars
    /\ UNCHANGED notMonVars

\* write_heartbeat(), line 163: tmp_file.replace(HEARTBEAT_FILE)
HeartbeatRename ==
    /\ mpc = "hb_rename"
    /\ monitor_heartbeat' = monitor_tmp
    /\ monitor_tmp' = NoHeartbeat
    /\ mpc' = "check"
    /\ UNCHANGED <<mclock, last_trigger_time, iteration, queue_size,
                   exit_status, decision, archive_file, events_to_keep,
                   events_to_archive, appended, qlock, ppc, torn_read>>
    /\ UNCHANGED queueVars
    /\ UNCHANGED notMonVars

\* main(), lines 194-204: the threshold check
CheckThreshold ==
    /\ mpc = "check"
    /\ LET fire == queue_size >= TriggerThreshold /\ TriggerDue(last_trigger_time, mclock) IN
         /\ decision' = [elapsed |-> IF last_trigger_time = NoTime THEN NoTime
                                     ELSE mclock - last_trigger_time,
                         fired |-> fire]
         /\ mpc' = IF fire THEN "trigger" ELSE AfterThresholdCheck
    /\ UNCHANGED <<mclock, last_trigger_time, iteration, queue_size,
                   exit_status, monitor_heartbeat, monitor_tmp, archive_file,
                   events_to_keep, events_to_archive, appended, qlock, ppc, torn_read>>
    /\ UNCHANGED queueVars
    /\ UNCHANGED notMonVars

\* main(), lines 199-201: trigger_claude_processing() runs the script, which
\* exits with 0 or not, runs out of time or cannot be run; each is logged.
Trigger(status) ==
    /\ mpc = "trigger"
    /\ exit_status' = status
    /\ last_trigger_time' = mclock
    /\ mpc' = AfterThresholdCheck
    /\ UNCHANGED <<mclock, iteration, queue_size, decision, monitor_heartbeat,
                   monitor_tmp, archive_file, events_to_keep, events_to_archive,
                   appended, qlock, ppc, torn_read>>
    /\ UNCHANGED queueVars
    /\ UNCHANGED notMonVars

\* archive_old_events(), lines 111-130: the queue file is read
ArchiveRead ==
    /\ mpc = "a_read"
    /\ events_to_archive' = ToArchive(queue, CutoffTime(mclock))
    /\ events_to_keep' = ToKeep(queue, CutoffTime(mclock))
    /\ mpc' = IF ToArchive(queue, CutoffTime(mclock)) # <<>> THEN "a_append" ELSE "a_open"
    /\ UNCHANGED <<mclock, last_trigger_time, iteration, queue_size,
                   exit_status, decision, monitor_heartbeat, monitor_tmp, archive_file,
                   appended, qlock, ppc, torn_read>>
    /\ UNCHANGED queueVars
    /\ UNCHANGED notMonVars

\* archive_old_events(), lines 133-135
ArchiveAppend ==
    /\ mpc = "a_append"
    /\ archive_file' = archive_file \o events_to_archive
    /\ mpc' = "a_open"
    /\ UNCHANGED <<mclock, last_trigger_time, iteration, queue_size,
                   exit_status, decision, monitor_heartbeat, monitor_tmp,
                   events_to_keep, events_to_archive, appended, qlock, ppc, torn_read>>
    /\ UNCHANGED queueVars
    /\ UNCHANGED notMonVars

\* archive_old_events(), line 140: open(QUEUE_FILE, 'w') truncates the file
ArchiveOpen ==
    /\ mpc = "a_open"
    /\ queue' = <<>>
    /\ mpc' = "a_write"
    /\ queue_missing' = FALSE
    /\ UNCHANGED <<queue_position, returned, max_read, last_poll>>
    /\ UNCHANGED <<mclock, last_trigger_time, iteration, queue_size,
                   exit_status, decision, monitor_heartbeat, monitor_tmp, archive_file,
                   events_to_keep, events_to_archive, appended, qlock, ppc, torn_read>>
    /\ UNCHANGED notMonVars

\* archive_old_events(), line 141: f.writelines(events_to_keep), and the close
ArchiveWrite ==
    /\ mpc = "a_write"
    /\ queue' \in Rewritten(events_to_keep, queue)
    /\ events_to_keep' = <<>>
    /\ events_to_archive' = <<>>
    /\ mpc' = "sleep"
    /\ queue_missing' = FALSE
    /\ UNCHANGED <<queue_position, returned, max_read, last_poll>>
    /\ UNCHANGED <<mclock, last_trigger_time, iteration, queue_size,
                   exit_status, decision, monitor_heartbeat, monitor_tmp, archive_file,
                   appended, qlock, ppc, torn_read>>
    /\ UNCHANGED notMonVars

\* main(), line 211: time.sleep(CHECK_INTERVAL) returns after d seconds
Sleep(d) ==
    /\ mpc = "sleep"
    /\ iteration < MaxIterations
    /\ mclock + d <= MaxMonClock
    /\ mclock' = mclock + d
    /\ mpc' = "count"
    /\ UNCHANGED <<last_trigger_time, iteration, queue_size, exit_status,
                   decision, monitor_heartbeat, monitor_tmp, archive_file,
                   events_to_keep, events_to_archive, appended, qlock, ppc, torn_read>>
    /\ UNCHANGED queueVars
    /\ UNCHANGED notMonVars

\* The sleep lasts CHECK_INTERVAL seconds, or a day longer when the host was
\* suspended meanwhile.
SleepTimes == {CheckInterval, CheckInterval + DaySeconds}

ExitStatuses == {"zero", "nonzero", "timeout", "error"}

\* The queue file the monitor finds when it starts.
InitBacklog ==
    /\ \E old \in {0, OldBacklog} :
          /\ queue = Backlog(old, NewBacklog)
          /\ appended = old + NewBacklog
    /\ queue_position = 0
    /\ returned = <<>>
    /\ max_read = 0
    /\ queue_missing = FALSE
    /\ last_poll = NoPoll

InitMonitorRun ==
    /\ InitBacklog
    /\ InitMemory /\ InitRestart /\ InitWatch /\ InitWorker
    /\ mclock = StartClock
    /\ last_trigger_time = NoTime
    /\ iteration = 0
    /\ mpc = "count"
    /\ queue_size = 0
    /\ exit_status = "none"
    /\ decision = [elapsed |-> NoTime, fired |-> FALSE]
    /\ monitor_heartbeat = NoHeartbeat
    /\ monitor_tmp = NoHeartbeat
    /\ archive_file = <<>>
    /\ events_to_keep = <<>>
    /\ events_to_archive = <<>>
    /\ qlock = "none"
    /\ ppc = "idle"
    /\ torn_read = FALSE

NextMonitor ==
    \/ Produce("event", RecentStamp)
    \/ MonitorCount
    \/ HeartbeatOpen
    \/ HeartbeatDump
    \/ HeartbeatRename
    \/ CheckThreshold
    \/ \E status \in ExitStatuses : Trigger(status)
    \/ ArchiveRead
    \/ ArchiveAppend
    \/ ArchiveOpen
    \/ ArchiveWrite
    \/ \E d \in SleepTimes : Sleep(d)

\* ------------------------------------------- archiving beside the worker
\* Lines of the queue file an archiving pass finds.
MaxQueued == 3

\* What a line of the queue file can be: an event older than the archive
\* age, a recent event, text that is not JSON, white space.
LineKinds ==
    {<<"event", OldStamp>>, <<"event", RecentStamp>>, <<"malformed", 0>>, <<"blank", 0>>}

QueueFiles ==
    UNION {{[i \in 1 .. n |-> QLine(i, f[i][1], f[i][2])] : f \in [1 .. n -> LineKinds]} :
             n \in 0 .. MaxQueued}

\* The worker's _poll_queue asks for the queue lock (lines 147-148).
QueueLockGranted(holder) == holder = "none"

\* main() reaches an iteration that is a multiple of 10.
ArchiveCall ==
    /\ mpc = "sleep"
    /\ mpc' = "a_read"
    /\ UNCHANGED <<mclock, last_trigger_time, iteration, queue_size, exit_status,
                   decision, monitor_heartbeat, monitor_tmp, archive_file,
                   events_to_keep, events_to_archive, appended, qlock, ppc, torn_read>>
    /\ UNCHANGED queueVars
    /\ UNCHANGED notMonVars

\* _poll_queue, lines 147-148: flock(LOCK_EX) on learning_queue.lock
PollerLock ==
    /\ ppc = "idle"
    /\ Len(returned) < MaxReturned
    /\ QueueLockGranted(qlock)
    /\ qlock' = "worker"
    /\ ppc' = "locked"
    /\ UNCHANGED <<mclock, last_trigger_time, iteration, mpc, queue_size, exit_status,
                   decision, monitor_heartbeat, monitor_tmp, archive_file,
                   events_to_keep, events_to_archive, appended, torn_read>>
    /\ UNCHANGED queueVars
    /\ UNCHANGED notMonVars

\* _poll_queue, lines 151-167: the queue file is opened and read
PollerRead ==
    /\ ppc = "locked"
    /\ LET r == _poll_queue(queue_missing, queue, queue_position, DefaultLimit) IN
         /\ last_poll' = Polled(DefaultLimit, r, queue_missing)
         /\ queue_position' = r.queue_position
         /\ returned' = returned \o r.events
         /\ max_read' = Max(max_read, r.at)
    /\ torn_read' = (torn_read \/ mpc = "a_write")
    /\ ppc' = "read"
    /\ UNCHANGED <<queue, queue_missing>>
    /\ UNCHANGED <<mclock, last_trigger_time, iteration, mpc, queue_size, exit_status,
                   decision, monitor_heartbeat, monitor_tmp, archive_file,
                   events_to_keep, events_to_archive, appended, qlock>>
    /\ UNCHANGED notMonVars

\* _poll_queue, line 169: flock(LOCK_UN)
PollerUnlock ==
    /\ ppc = "read"
    /\ qlock' = "none"
    /\ ppc' = "idle"
    /\ UNCHANGED <<mclock, last_trigger_time, iteration, mpc, queue_size, exit_status,
                   decision, monitor_heartbeat, monitor_tmp, archive_file,
                   events_to_keep, events_to_archive, appended, torn_read>>
    /\ UNCHANGED queueVars
    /\ UNCHANGED notMonVars

\* archive_old_events() is called on a queue file of any content while the
\* worker polls.
InitArchiveRun ==
    /\ queue \in QueueFiles
    /\ appended = Len(queue)
    /\ queue_position = 0
    /\ returned = <<>>
    /\ max_read = 0
    /\ queue_missing = FALSE
    /\ last_poll = NoPoll
    /\ InitMemory /\ InitRestart /\ InitWatch /\ InitWorker
    /\ mclock = StartClock + ArchiveEvery * CheckInterval
    /\ last_trigger_time = NoTime
    /\ iteration = ArchiveEvery
    /\ mpc = "a_read"
    /\ queue_size = 0
    /\ exit_status = "none"
    /\ decision = [elapsed |-> NoTime, fired |-> FALSE]
    /\ monitor_heartbeat = NoHeartbeat
    /\ monitor_tmp = NoHeartbeat
    /\ archive_file = <<>>
    /\ events_to_keep = <<>>
    /\ events_to_archive = <<>>
    /\ qlock = "none"
    /\ ppc = "idle"
    /\ torn_read = FALSE

NextArchive ==
    \/ ArchiveCall
    \/ ArchiveRead
    \/ ArchiveAppend
    \/ ArchiveOpen
    \/ ArchiveWrite
    \/ PollerLock
    \/ PollerRead
    \/ PollerUnlock

\* ------------------------------------------ archiving beside the producers
\* Lines ever appended to the queue file that are followed.
MaxAppended == 4

\* An external producer appends a well-formed event of the present time; it
\* takes no lock the monitor takes.
ProduceBeside ==
    /\ appended < MaxAppended
    /\ Produce("event", RecentStamp)

\* The monitor process is killed inside archive_old_events().
MonitorCrash ==
    /\ mpc \in {"a_append", "a_open", "a_write"}
    /\ mpc' = "crashed"
    /\ events_to_keep' = <<>>
    /\ events_to_archive' = <<>>
    /\ UNCHANGED <<mclock, last_trigger_time, iteration, queue_size, exit_status,
                   decision, monitor_heartbeat, monitor_tmp, archive_file,
                   appended, qlock, ppc, torn_read>>
    /\ UNCHANGED queueVars
    /\ UNCHANGED notMonVars

\* archive_old_events() is called on a queue file of well-formed events, old
\* and recent, while producers append and the worker polls.
InitArchiveBeside ==
    /\ InitArchiveRun
    /\ \A j \in 1 .. Len(queue) : queue[j].valid

NextArchiveBeside ==
    \/ ProduceBeside
    \/ MonitorCrash
    \/ ArchiveCall
    \/ ArchiveRead
    \/ ArchiveAppend
    \/ ArchiveOpen
    \/ ArchiveWrite
    \/ PollerLock
    \/ PollerRead
    \/ PollerUnlock

\* One call of _poll_queue from start to end.
PollerStep ==
    \/ PollerLock
    \/ PollerRead
    \/ PollerUnlock

\* ========================================================= specifications
Init == InitQueue /\ InitMemory /\ InitRestart /\ InitWatch /\ InitMonitor /\ InitWorker

SpecQueue == Init /\ [][NextQueue]_vars

\* run() polls once per second for as long as the instance lives.
FairSpecQueue == SpecQueue /\ WF_vars(Poll)

SpecQueueFile == Init /\ [][NextQueueFile]_vars

SpecMemory == Init /\ [][NextMemory]_vars

SpecRestart == Init /\ [][NextRestart]_vars

InitUpdateAlone ==
    InitQueue /\ InitMemory /\ InitBackoff /\ InitWatch /\ InitMonitor /\ InitWorker

SpecWatch == Init /\ [][NextWatch]_vars

SpecMonitor == InitMonitorRun /\ [][NextMonitor]_vars

SpecArchive == InitArchiveRun /\ [][NextArchive]_vars

SpecArchiveBeside == InitArchiveBeside /\ [][NextArchiveBeside]_vars

\* run() polls once per second for as long as the instance lives.
FairSpecArchiveBeside == SpecArchiveBeside /\ WF_vars(PollerStep)

SpecWorker == Init /\ [][NextWorker]_vars

SpecBackoff == InitUpdateAlone /\ [][NextBackoff]_vars

InitLongRun ==
    /\ InitMemory /\ InitRestart /\ InitWatch /\ InitMonitor /\ InitWorker
    /\ \E n \in BacklogSizes : queue = [i \in 1 .. n |-> Line(i, TRUE)]
    /\ queue_position = 0
    /\ returned = <<>>
    /\ max_read = 0
    /\ queue_missing = FALSE
    /\ last_poll = NoPoll

SpecLongRun == InitLongRun /\ [][NextLongRun]_vars

\* The main thread of the worker keeps running until run() ends.
FairSpecLongRun == SpecLongRun /\ WF_vars(RunStep)

\* =================================================================== claims
AllValid(q) == \A i \in 1 .. Len(q) : q[i].valid
Ids(q) == [i \in 1 .. Len(q) |-> q[i].id]

\* C1 (safety part): while every line of the queue is a well-formed event, the
\* events returned so far are exactly the first queue_position events of the
\* queue, each once and in append order.
C1_ReturnedIsPrefix ==
    AllValid(queue) =>
        /\ queue_position <= Len(queue)
        /\ returned = SubSeq(Ids(queue), 1, queue_position)

\* C1: for every sequence of valid events appended to the queue file, repeated
\* polls of one worker instance return each event exactly once, in append
\* order, and every appended event is eventually returned.
C1_EachEventOnceInOrder ==
    /\ [] C1_ReturnedIsPrefix
    /\ \A n \in 1 .. MaxLines :
          (Len(queue) >= n /\ AllValid(queue))
              ~> (~AllValid(queue) \/ \E i \in 1 .. Len(returned) : returned[i] = n)

\* C1 witness: three or more valid events, all returned, the cursor at the end.
C1_Witness ==
    /\ Len(queue) >= 3
    /\ AllValid(queue)
    /\ returned = Ids(queue)
    /\ queue_position = Len(queue)

\* C2: the cursor counts the lines physically read, malformed ones included,
\* so no line that was read is read again by a later poll.
C2_CursorCountsLinesRead == queue_position = max_read

PrefsOf(f) == IF Parses(f) THEN f.preferences ELSE <<>>
AllIdle == \A p \in Procs : pc[p] = "idle"

\* The write_memory calls that hold the lock and have not renamed yet.
InFlight == {arg[p].pref : p \in {q \in Procs : pc[q] \in WriteLocked \ {"w_unlock"}}}
Committed == SelectSeq(acquired, LAMBDA x : x \notin InFlight)

\* C3: without outside corruption, the primary document's preferences are
\* exactly the inputs of the write_memory calls that reached the rename, in
\* the order the calls acquired the lock.
C3_PreferencesInLockOrder ==
    corruptions = 0 => /\ memory_file.kind \in {"none", "doc"}
                       /\ PrefsOf(memory_file) = Committed

\* C3 witness: two concurrent calls; the one issued second took the lock first.
C3_Witness ==
    /\ corruptions = 0
    /\ crashes = 0
    /\ memory_file = Doc(<<2, 1>>)

\* C4: the primary document only ever changes to a complete document, the
\* old one plus the new preference; it is never a partially written file.
C4_PrimaryOldOrNew ==
    [][memory_file' # memory_file =>
          \/ memory_file' = Garbage /\ corruptions' = corruptions + 1
          \/ \E p \in Procs :
                /\ pc[p] = "w_rename"
                /\ memory_file' = Doc(memory[p])
                /\ memory[p][Len(memory[p])] = arg[p].pref]_vars

\* C4 witness: a writer was killed between opening the temporary file and
\* the rename; the primary is still the complete old document.
C4_Witness ==
    /\ AllIdle
    /\ ncalls = 2 /\ nreads = 0 /\ crashes = 1 /\ corruptions = 0
    /\ tmp_file = Partial
    /\ memory_file = Doc(<<1>>)

\* C5: read_memory on a corrupted primary with a valid backup returns the
\* backup's contents, which are not empty, on the normal return path.
C5_CorruptPrimaryReadsBackup ==
    [][\A p \in Procs :
          (/\ pc[p] = "r_read" /\ pc'[p] \notin {"r_read", "idle"}
           /\ Exists(memory_file) /\ ~Parses(memory_file)
           /\ Exists(backup_file) /\ Parses(backup_file))
          => /\ pc'[p] = "r_unlock"
             /\ result'[p] = backup_file
             /\ result'[p].preferences # <<>>]_vars

\* C5 witness: the read has just returned the backup of a corrupted primary.
C5_Witness ==
    \E p \in Procs :
        /\ pc[p] = "r_unlock"
        /\ memory_file = Garbage
        /\ Parses(backup_file)
        /\ result[p] = backup_file

\* C6: read_memory on a corrupted primary whose backup is missing or does not
\* parse returns the empty memory on the normal return path; so does a
\* read_memory call made when there is no primary document.
C6_NoUsableBackupReadsEmpty ==
    [][/\ \A p \in Procs :
             (/\ pc[p] = "r_read" /\ pc'[p] \notin {"r_read", "idle"}
              /\ Exists(memory_file) /\ ~Parses(memory_file)
              /\ ~(Exists(backup_file) /\ Parses(backup_file)))
             => /\ pc'[p] = "r_unlock"
                /\ result'[p] = _empty_memory
       /\ (nreads' # nreads /\ ~Exists(memory_file))
             => \E p \in Procs : /\ pc[p] = "idle" /\ pc'[p] = "idle"
                                /\ result'[p] = _empty_memory
                                /\ lock' = lock]_vars

\* C6 witness: the read has just returned the empty memory although a primary
\* exists: it is corrupted and the backup does not parse either.
C6_Witness ==
    \E p \in Procs :
        /\ pc[p] = "r_unlock"
        /\ memory_file = Garbage
        /\ Exists(backup_file) /\ ~Parses(backup_file)
        /\ result[p] = _empty_memory

\* C7: at most one process is inside the locked steps of write_memory and
\* read_memory, a process is inside them exactly while it holds the lock, and
\* no process holds the lock once its call has ended, normally or by raising.
C7_LockIsExclusive ==
    /\ Cardinality({p \in Procs : pc[p] \in Locked}) <= 1
    /\ \A p \in Procs : pc[p] \in Locked <=> lock = p

\* C7 witness: json.dump raised in one call (it left a partial temporary
\* file, nobody was killed), the lock was released, and another call got it.
C7_Witness ==
    \E p \in Procs :
        /\ pc[p] = "w_read"
        /\ lock = p
        /\ tmp_file = Partial
        /\ crashes = 0

IsPrefix(s, t) == Len(s) <= Len(t) /\ SubSeq(t, 1, Len(s)) = s

\* C8: after any sequence of completed write_memory calls and corruptions of
\* the primary, the backup, when it exists, is a valid document, a prefix of
\* the primary at most two writes behind it.
C8_BackupIsPriorValidDocument ==
    (AllIdle /\ crashes = 0 /\ Exists(backup_file)) =>
        /\ Parses(backup_file)
        /\ Parses(memory_file) =>
              /\ IsPrefix(backup_file.preferences, memory_file.preferences)
              /\ Len(memory_file.preferences) - Len(backup_file.preferences) <= 2

\* C9: should_restart_worker returns false whenever now < backoff_until and
\* whenever restart_count >= 5, whatever backoff_until is; it returns true
\* when there is no state file, and when restart_count < 5 and
\* now >= backoff_until.
C9_ShouldRestartDecision ==
    rpc \in {"denied", "update"} =>
        /\ (StateParses(state_file) /\ time_read < state_file.backoff_until)
              => rpc = "denied"
        /\ (StateParses(state_file) /\ state_file.restart_count >= 5)
              => rpc = "denied"
        /\ ~StateExists(state_file) => rpc = "update"
        /\ (/\ StateParses(state_file) /\ state_file.restart_count < 5
            /\ time_read >= state_file.backoff_until)
              => rpc = "update"

\* C9 witness: the launch is denied for the count alone, the backoff is over.
C9_Witness ==
    /\ rpc = "denied"
    /\ StateParses(state_file)
    /\ state_file.restart_count >= 5
    /\ time_read >= state_file.backoff_until

\* C10 as stated: with a persisted restart_count of 3 before the call,
\* update_restart_state leaves backoff_until = now + 8.
C10_BackoffEightAfterCountThree ==
    (rpc = "run" /\ StateParses(before) /\ before.restart_count = 3)
        => state_file.backoff_until = time_read + 8

\* C10 amended: with a persisted restart_count of 3 before the call,
\* update_restart_state writes restart_count = 4 and
\* backoff_until = now + 16 (2^4: the exponent is the incremented count).
C10_BackoffSixteenAfterCountThree ==
    (rpc = "run" /\ StateParses(before) /\ before.restart_count = 3)
        => state_file = State(4, time_read + 16)

\* C10 witness: update_restart_state has run on a state file with count 3.
C10_Witness ==
    /\ rpc = "run"
    /\ StateParses(before) /\ before.restart_count = 3
    /\ state_file.restart_count = 4

\* update_restart_state has returned: the state file holds what it wrote.
Updated == rpc = "run" /\ StateParses(before)
BackoffWritten == state_file.backoff_until - time_read

\* C11 as stated: with a persisted restart_count of 10 before the call the
\* backoff written is exactly 3600 seconds, and for every count it is
\* min(2^restart_count, 3600), at most 3600.
C11_BackoffCappedAfterCountTen ==
    Updated =>
        /\ before.restart_count = 10 => BackoffWritten = 3600
        /\ BackoffWritten = Min(2 ^ state_file.restart_count, 3600)
        /\ BackoffWritten <= 3600

\* C11 amended: with a persisted restart_count of 10 before the call,
\* update_restart_state writes restart_count = 11 and a backoff of 2048
\* seconds (2^11), below the cap; the backoff is exactly 3600 seconds when the
\* count before the call is 11 or more; for every count the backoff written is
\* min(2^restart_count, 3600) of the incremented count, at most 3600.
C11_BackoffOfIncrementedCount ==
    Updated =>
        /\ before.restart_count = 10 => state_file = State(11, time_read + 2048)
        /\ before.restart_count >= 11 => BackoffWritten = 3600
        /\ state_file.restart_count = before.restart_count + 1
        /\ BackoffWritten = Min(2 ^ state_file.restart_count, 3600)
        /\ BackoffWritten <= 3600

\* C11 witness: update_restart_state has run on a state file with count 10.
C11_Witness ==
    /\ Updated
    /\ before.restart_count = 10
    /\ state_file.restart_count = 11

\* C12 as stated: from no state file, every admitted launch has incremented
\* the persisted restart_count by exactly one when the run loop is entered, no
\* operation lowers the count, and at most 5 admitted launches ever reach the
\* run loop.
C12_EveryLaunchCountedAtMostFive ==
    /\ entered <= 5
    /\ rpc = "run" => (StateParses(state_file) /\ state_file.restart_count = entered)

\* C19 as stated: the worker heartbeat, the monitor heartbeat and the restart
\* state file are each written through a temporary file and an atomic rename,
\* so a reader never finds any of them partially written or empty.
C19_FilesNeverPartial ==
    /\ worker_heartbeat # PartialHeartbeat
    /\ monitor_heartbeat # PartialHeartbeat
    /\ state_file.kind # "partial"

\* C13: while the watchdog is running the process does not outlive
\* timeout_seconds + 10 seconds of idleness (counted from the last activity,
\* or 10 seconds from start() when the idleness began before it), and no
\* watchdog thread comes out of a sleep with idle time over timeout_seconds
\* other than by ending the process, whether or not gathering the metrics
\* raised.
C13_KilledAtFirstLatePoll ==
    /\ [](_running /\ ~exited =>
             clock <= Max(last_activity + TimeoutSeconds, running_since) + PollInterval)
    /\ [][\A t \in Threads :
             (wpc[t] = "sleep" /\ clock - last_activity > TimeoutSeconds)
                 => wpc'[t] = "sleep"]_vars

\* C13 witness: a poll found the idle time over the timeout and ended the
\* process although gathering the metrics raised.
C13_Witness ==
    /\ exited
    /\ metrics_failed
    /\ clock - last_activity > TimeoutSeconds

\* C14: the watchdog ends the process only if at some moment the idle time
\* was longer than timeout_seconds; activity in every interval of
\* timeout_seconds keeps the process alive, however polls and updates
\* interleave.
C14_NoKillWhileActive == exited => overdue

\* C14 witness: a poll found the idle time equal to timeout_seconds, after
\* more than timeout_seconds of running, and the process lives on.
C14_Witness ==
    /\ ~exited /\ ~overdue /\ _running
    /\ \E t \in Threads : wpc[t] = "top"
    /\ clock - last_activity = TimeoutSeconds
    /\ clock > 2 * TimeoutSeconds

\* The threshold check of the current iteration has been made.
Decided == mpc \notin {"count", "hb_open", "hb_tmp", "hb_rename", "check"}

\* C15: a threshold check made less than 300 seconds after the previous
\* trigger call returned never calls the trigger, whatever the exit status of
\* that call, so two calls are at least 300 seconds apart; the first check
\* that finds 10 or more events calls it.
C15_TriggersFiveMinutesApart ==
    Decided =>
        /\ (decision.fired /\ decision.elapsed # NoTime) => decision.elapsed >= 300
        /\ (queue_size >= 10 /\ decision.elapsed = NoTime) => decision.fired
        /\ decision.fired => queue_size >= 10

\* C15 witness: with 12 events queued and a trigger call that timed out less
\* than 300 seconds ago, the check does not call the trigger again.
C15_Witness ==
    /\ Decided
    /\ queue_size = 12
    /\ exit_status = "timeout"
    /\ decision.elapsed # NoTime /\ decision.elapsed < 300
    /\ ~decision.fired

\* C16 as stated: at every check the trigger is called exactly when the depth
\* is 10 or more and no trigger has occurred yet or at least 300 seconds have
\* passed since the previous one.
C16_TriggerIffDueAfter300 ==
    Decided =>
        (decision.fired <=>
            /\ queue_size >= 10
            /\ (decision.elapsed = NoTime \/ decision.elapsed >= 300))

\* A line whose embedded timestamp is older than the cutoff of a pass made now.
IsOld(l) == l.valid /\ l.timestamp < CutoffTime(mclock)
InFile(f, i) == \E j \in 1 .. Len(f) : f[j].id = i

\* C17 as stated: after an archiving pass every line the queue file held is
\* either in the archive, when its timestamp is older than the cutoff, or
\* still in the queue file, in the original order; no line is dropped.
C17_ArchivePartitionsLines ==
    mpc = "sleep" =>
        /\ \A i \in 1 .. appended : InFile(queue, i) \/ InFile(archive_file, i)
        /\ \A j \in 1 .. Len(archive_file) : IsOld(archive_file[j])
        /\ \A j \in 1 .. Len(queue) : ~IsOld(queue[j])
        /\ \A j, k \in 1 .. Len(queue) : j < k => queue[j].id < queue[k].id

\* C18 as stated: the queue file is rewritten only by a process holding the
\* queue lock, and no poll reads it between the truncation and the write.
C18_RewriteUnderQueueLock ==
    /\ mpc = "a_write" => qlock = "monitor"
    /\ ~torn_read

\* The events of the current batch the for loop has not reached yet.
Undispatched == IF wkpc = "dispatch" THEN SubSeq(batch, idx, Len(batch)) ELSE <<>>

\* C20: whichever handlers raised, the events handed to _process_event are
\* the events the polls returned, each once and in order, apart from the rest
\* of a batch cut short by an interrupt; run() never ends because a handler
\* raised.
C20_BatchGoesOnAfterHandlerError ==
    /\ exit_reason # "fatal"
    /\ exit_reason # "interrupt" => dispatched \o Undispatched = returned

\* C20 witness: the handler raised for the first event of a batch of two and
\* the second event has been dispatched and processed.
C20_Witness ==
    /\ wkpc = "dispatch"
    /\ Len(batch) = 2 /\ idx = 3
    /\ Len(dispatched) - 1 \in failed
    /\ Len(dispatched) \notin failed
    /\ events_processed >= 1

\* The handlers of the batch just dispatched that returned.
ProcessedInBatch ==
    Len(batch) - Cardinality({i \in failed : i > Len(dispatched) - Len(batch)})

\* The worker is at, or on its way to, the next poll.
BeforePoll ==
    \/ wkpc = "poll"
    \/ wkpc \in {"hb_open", "hb_dump", "hb_rename"} /\ after_hb = "poll"

\* C21: an instance whose count of processed events has reached 100 ends
\* run() by the restart exit: status 0, watchdog stopped, no watchdog kill,
\* at the end of the loop iteration in which the count was reached and after
\* the post-batch heartbeat was written; the count at that exit is 100..109
\* and the instance never starts another poll with a count of 100 or more.
C21_CleanExitAfter100 ==
    /\ [](BeforePoll => events_processed < MAX_EVENTS_BEFORE_RESTART)
    /\ [](exit_reason = "restart" =>
            /\ wkpc = "exited" /\ ~_running /\ ~exited
            /\ events_processed \in MAX_EVENTS_BEFORE_RESTART ..
                                     MAX_EVENTS_BEFORE_RESTART + DefaultLimit - 1
            /\ events_processed - ProcessedInBatch < MAX_EVENTS_BEFORE_RESTART
            /\ idx > Len(batch)
            /\ after_hb = "restart_check"
            /\ worker_heartbeat = Heartbeat /\ worker_tmp = NoHeartbeat)
    /\ [][wkpc = "restart_check" /\ events_processed >= MAX_EVENTS_BEFORE_RESTART
            => wkpc' = "exited"]_vars
    /\ (events_processed >= MAX_EVENTS_BEFORE_RESTART ~> wkpc = "exited")

\* C21 witness: one handler raised, so ten full batches left the count at 99,
\* and the instance has left by the restart exit after an eleventh full batch.
C21_Witness ==
    /\ exit_reason = "restart"
    /\ events_processed = MAX_EVENTS_BEFORE_RESTART + DefaultLimit - 1
    /\ Cardinality(failed) = 1
    /\ Len(batch) = DefaultLimit

\* A step that is one call of _process_event.
Dispatches == dispatched' # dispatched

\* C22: dispatching a stop event whose extraction yields a structured
\* preference appends one preference to the memory document; dispatching any
\* other event leaves the memory document and its backup as they were.
C22_StopEventWritesMemory ==
    [][Dispatches =>
        IF event'.event_type = "stop" /\ event'.preference
        THEN /\ Parses(memory_file')
             /\ Len(PrefsOf(memory_file')) = Len(PrefsOf(memory_file)) + 1
        ELSE UNCHANGED <<memory_file, backup_file>>]_vars

\* C23: the working directory after every call of _process_event is the
\* working directory before it, whether event.project is a directory or not
\* and whether the handler returned or raised; so every call starts in the
\* directory the worker was started in.
C23_WorkingDirectoryRestored ==
    /\ [](cwd = StartDir)
    /\ [][Dispatches => cwd' = cwd /\ handler_cwd' = HandlerDir(cwd, event'.project)]_vars

\* C23 witness: the handler of the last event ran in the project directory and
\* raised, an event before it had a project that is no directory, and the
\* worker is back where it started.
C23_Witness ==
    /\ Len(dispatched) \in failed
    /\ Len(dispatched) >= 2
    /\ event.project = ProjectDir
    /\ handler_cwd = ProjectDir
    /\ cwd = StartDir

\* C24: the cursor of an instance starts at 0, never decreases and never
\* exceeds the number of lines ever appended to the queue file; a poll returns
\* at most `limit` events; a poll that finds no queue file returns no event
\* and leaves the cursor where it was.
C24_CursorMonotoneAndBounded ==
    /\ queue_position = 0
    /\ [](queue_position <= appended)
    /\ [](last_poll.count <= last_poll.limit)
    /\ [](last_poll.missing => last_poll.count = 0)
    /\ [][queue_position' >= queue_position]_vars
    /\ [][queue_missing /\ queue_missing' => UNCHANGED <<queue_position, returned>>]_vars

\* C24 witness: a poll with the small limit returned as many events as the
\* limit with more lines left, the file was removed, and the last poll found
\* no file and returned nothing, the cursor still past the lines read.
C24_Witness ==
    /\ queue_missing
    /\ last_poll.missing /\ last_poll.count = 0 /\ last_poll.limit = SmallLimit
    /\ queue_position = SmallLimit
    /\ appended > SmallLimit
    /\ returned = <<1, 2>>

\* C25: once stop() has returned the watchdog never ends the process, however
\* long no activity is recorded, until start() is called again; and start()
\* called while the monitor is running creates no thread.
C25_NoKillAfterStopReturned ==
    /\ [](exited => stop_call # "returned")
    /\ [][_running => nthreads' = nthreads]_vars

\* Line i as its producer wrote it is in file f.
WholeInFile(f, i) == \E j \in 1 .. Len(f) : f[j].id = i /\ f[j].valid

\* C26: with producers appending while archive_old_events runs, every line
\* ever appended is in the queue file or in the archive file in every later
\* state, whether the pass ended or the monitor was killed inside it (the
\* moment between the truncation and the write of one pass is left aside).
C26_NoLineLost ==
    mpc # "a_write" =>
        \A i \in 1 .. appended : WholeInFile(queue, i) \/ WholeInFile(archive_file, i)

\* The ids of the events the queue file holds.
QueuedEvents == {queue[j].id : j \in {k \in 1 .. Len(queue) : queue[k].valid}}
Returned == {returned[j] : j \in 1 .. Len(returned)}

\* The cursor designates the first unread line: the events before it were
\* returned, the events after it were not.
CursorAtFirstUnread ==
    \A j \in 1 .. Len(queue) :
        queue[j].valid => (j <= queue_position <=> queue[j].id \in Returned)

\* C27: archiving never makes the worker skip or re-read events: whenever no
\* archiving pass and no poll is under way the cursor designates the first
\* unread line, no event is returned twice, and every event in the queue file
\* is eventually returned or archived.
C27_ArchivingKeepsCursor ==
    /\ []((mpc = "sleep" /\ ppc = "idle") => CursorAtFirstUnread)
    /\ [](Cardinality(Returned) = Len(returned))
    /\ \A i \in 1 .. MaxAppended :
          [](i \in QueuedEvents => <>(i \in Returned \/ i \notin QueuedEvents))
====
